---- MODULE Spec2Model ----
(***************************************************************************)
(* Model of src/app.py: the Prozon order processor (catalog upsert and     *)
(* persistence, order text parsing, enrichment against the catalog, the    *)
(* batch route and the CSV exporter).                                      *)
(*                                                                         *)
(* Text is a sequence of symbols.  A symbol is one character (a digit, a   *)
(* letter, "-", a blank, a line break) or one of the fixed literals the    *)
(* patterns of parse_order look for, each written as a single symbol.      *)
(* Storage writes are taken to succeed.  numero_commande, ref_commande and *)
(* date (app.py 102-115) are recovered independently of the address and    *)
(* the line items and are not part of the model.                           *)
(***************************************************************************)
EXTENDS Integers, Sequences, FiniteSets, TLC

\* ------------------------------------------------------------- symbols
SP   == " "
NL   == "NL"
ADR  == "Adresse de livraison"
REF  == "Ref. de commande"
HDR  == "Reference Produit Qte"
DEST == "Le destinataire"
FR   == "france"

Digits == {"0", "1", "2", "3", "5"}
IsDigit(c) == c \in Digits
IsSpace(c) == c \in {SP, NL}

DigitVal(c) ==
  CASE c = "0" -> 0 [] c = "1" -> 1 [] c = "2" -> 2 [] c = "3" -> 3 [] OTHER -> 5

\* ------------------------------------------------------ string helpers
\* s[a..b], empty when a > b
Slice(s, a, b) == IF a > b THEN <<>> ELSE SubSeq(s, a, b)

RECURSIVE Flatten(_)
Flatten(ss) == IF ss = <<>> THEN <<>> ELSE Head(ss) \o Flatten(Tail(ss))

\* first index >= i whose symbol is not a digit (Len(s)+1 when none)
RECURSIVE SkipDigits(_, _)
SkipDigits(s, i) ==
  IF i <= Len(s) /\ IsDigit(s[i]) THEN SkipDigits(s, i + 1) ELSE i

\* first index >= i whose symbol is not white space
RECURSIVE SkipSpaces(_, _)
SkipSpaces(s, i) ==
  IF i <= Len(s) /\ IsSpace(s[i]) THEN SkipSpaces(s, i + 1) ELSE i

\* str.strip()
RECURSIVE LStrip(_)
LStrip(s) == IF s # <<>> /\ IsSpace(Head(s)) THEN LStrip(Tail(s)) ELSE s

RECURSIVE RStrip(_)
RStrip(s) ==
  IF s # <<>> /\ IsSpace(s[Len(s)]) THEN RStrip(Slice(s, 1, Len(s) - 1)) ELSE s

Strip(s) == RStrip(LStrip(s))

\* str.split(): the maximal runs of non-blank symbols
RECURSIVE SplitWords(_)
SplitWords(s) ==
  LET t == LStrip(s) IN
  IF t = <<>> THEN <<>>
  ELSE LET e == CHOOSE k \in 1..(Len(t) + 1) :
                  /\ \A j \in 1..(k - 1) : ~IsSpace(t[j])
                  /\ (k = Len(t) + 1 \/ IsSpace(t[k]))
       IN <<Slice(t, 1, e - 1)>> \o SplitWords(Slice(t, e, Len(t)))

\* sep.join(parts)
RECURSIVE Join(_, _)
Join(sep, parts) ==
  IF parts = <<>> THEN <<>>
  ELSE IF Len(parts) = 1 THEN parts[1]
  ELSE parts[1] \o sep \o Join(sep, Tail(parts))

\* str.split('\n')
RECURSIVE SplitLines(_)
SplitLines(s) ==
  IF \A j \in 1..Len(s) : s[j] # NL THEN <<s>>
  ELSE LET k == CHOOSE k \in 1..Len(s) :
                  s[k] = NL /\ \A j \in 1..(k - 1) : s[j] # NL
       IN <<Slice(s, 1, k - 1)>> \o SplitLines(Slice(s, k + 1, Len(s)))

\* int(digits)
RECURSIVE IntOf(_)
IntOf(ds) ==
  IF ds = <<>> THEN 0
  ELSE 10 * IntOf(Slice(ds, 1, Len(ds) - 1)) + DigitVal(ds[Len(ds)])

\* "$" without re.MULTILINE: the end of the text, or before a final line break
Dollar(s, p) == p = Len(s) + 1 \/ (p = Len(s) /\ s[p] = NL)

\* ------------------------------------------------- parse_order (92-200)
\* re.search(START \s+ (.*?)(?=END|$), text, re.DOTALL).group(1), used with
\* START/END = ADR/REF (118-122) and HDR/DEST (168-172).  [found, body]
SectionStarts(text, start) ==
  {i \in 1..Len(text) :
     text[i] = start /\ i + 1 <= Len(text) /\ IsSpace(text[i + 1])}

Section(text, start, end) ==
  IF SectionStarts(text, start) = {} THEN [found |-> FALSE, body |-> <<>>]
  ELSE LET i == CHOOSE i \in SectionStarts(text, start) :
                  \A j \in SectionStarts(text, start) : i <= j
           b == SkipSpaces(text, i + 1)
           e == CHOOSE p \in b..(Len(text) + 1) :
                  /\ (Dollar(text, p) \/ (p <= Len(text) /\ text[p] = end))
                  /\ \A q \in b..(p - 1) :
                       ~(Dollar(text, q) \/ text[q] = end)
       IN [found |-> TRUE, body |-> Slice(text, b, e - 1)]

\* 0\d{9} matches at position i of line (128)
PhoneDigits == 9
PhoneAt(line, i) ==
  /\ i + PhoneDigits <= Len(line)
  /\ line[i] = "0"
  /\ \A j \in 1..PhoneDigits : IsDigit(line[i + j])

\* re.findall(r'0\d{9}', line) from position i on: leftmost, non-overlapping
RECURSIVE FindPhones(_, _)
FindPhones(line, i) ==
  IF i > Len(line) THEN <<>>
  ELSE IF PhoneAt(line, i)
       THEN <<Slice(line, i, i + PhoneDigits)>>
              \o FindPhones(line, i + PhoneDigits + 1)
       ELSE FindPhones(line, i + 1)

\* the address block (123-165)
ResolveAddress(body) ==
  LET adresse_text == Strip(body)
      raw   == SplitLines(adresse_text)
      lines == SelectSeq([k \in 1..Len(raw) |-> Strip(raw[k])],
                         LAMBDA l : l # <<>>)
      telephones == Flatten([k \in 1..Len(lines) |-> FindPhones(lines[k], 1)])
      IsPhoneLine(l) == Len(l) = PhoneDigits + 1 /\ PhoneAt(l, 1)
      adresse_lines ==
        SelectSeq(lines, LAMBDA l : ~IsPhoneLine(l) /\ l # <<FR>>)
      n == Len(adresse_lines)
      nom_complet ==
        IF n >= 3 THEN Join(<<SP>>, Slice(adresse_lines, 1, 2))
        ELSE IF n >= 1 THEN adresse_lines[1] ELSE <<>>
      rue ==
        IF n >= 3 THEN adresse_lines[3]
        ELSE IF n > 1 THEN adresse_lines[2] ELSE <<>>
      ville ==
        IF n >= 3 THEN (IF n > 3 THEN adresse_lines[4] ELSE <<>>)
        ELSE <<>>
  IN [nom_complet |-> nom_complet,
      rue |-> rue,
      ville |-> ville,
      pays |-> <<"France">>,
      telephone |-> Join(<<",", SP>>, telephones),
      adresse_complete |-> Join(<<NL>>, lines)]

\* the empty dict order['adresse'] starts as (98)
EmptyDict == [k \in {} |-> <<>>]

\* \d{5}-\d+ matches at position i of s; RefEnd is the index after the match
RefPrefixLen == 5
RefAt(s, i) ==
  /\ i + RefPrefixLen + 1 <= Len(s)
  /\ \A j \in 0..(RefPrefixLen - 1) : IsDigit(s[i + j])
  /\ s[i + RefPrefixLen] = "-"
  /\ IsDigit(s[i + RefPrefixLen + 1])
RefEnd(s, i) == SkipDigits(s, i + RefPrefixLen + 1)

\* (\d{5}-\d+)\s+ matches at position i (176)
ItemAt(s, i) ==
  RefAt(s, i) /\ RefEnd(s, i) <= Len(s) /\ IsSpace(s[RefEnd(s, i)])

\* a variant whose quantity pattern is (\d)\s*$ : the last digit only
LineItemLastDigit(ref_prozon, captured) ==
  LET description_full == Strip(captured)
      n     == Len(description_full)
      found == n > 0 /\ IsDigit(description_full[n])
      description ==
        IF found THEN Strip(Slice(description_full, 1, n - 1))
        ELSE description_full
  IN [reference_prozon |-> ref_prozon,
      description |-> Join(<<SP>>, SplitWords(description)),
      quantite |-> IF found THEN DigitVal(description_full[n]) ELSE 1]

\* one line item from its reference and its captured text (180-198)
LineItem(ref_prozon, captured) ==
  LET description_full == Strip(captured)
      \* re.search(r'(\d+)\s*$', description_full)
      starts == {i \in 1..Len(description_full) :
                   /\ IsDigit(description_full[i])
                   /\ SkipSpaces(description_full,
                                 SkipDigits(description_full, i))
                        = Len(description_full) + 1}
      found == starts # {}
      st    == CHOOSE i \in starts : \A j \in starts : i <= j
      qte   == IF found
               THEN IntOf(Slice(description_full, st,
                                SkipDigits(description_full, st) - 1))
               ELSE 1
      description ==
        IF found THEN Strip(Slice(description_full, 1, st - 1))
        ELSE description_full
  IN [reference_prozon |-> ref_prozon,
      description |-> Join(<<SP>>, SplitWords(description)),
      quantite |-> qte]

\* the next match of ref_pattern in s from position pos on (176-181):
\* [found, ref = group(1), captured = group(2), end = match.end()]
NextItem(s, pos) ==
  LET cands == {i \in pos..Len(s) : ItemAt(s, i)} IN
  IF cands = {}
  THEN [found |-> FALSE, ref |-> <<>>, captured |-> <<>>, end |-> pos]
  ELSE LET i == CHOOSE i \in cands : \A j \in cands : i <= j
           b == SkipSpaces(s, RefEnd(s, i))
           Stop(p) == \/ Dollar(s, p)
                      \/ (p <= Len(s) /\ (RefAt(s, p) \/ s[p] = DEST))
           e == CHOOSE p \in b..(Len(s) + 1) :
                  Stop(p) /\ \A q \in b..(p - 1) : ~Stop(q)
       IN [found |-> TRUE,
           ref |-> Slice(s, i, RefEnd(s, i) - 1),
           captured |-> Slice(s, b, e - 1),
           end |-> e]

\* re.finditer(ref_pattern, produits_text, re.DOTALL) from position pos on
RECURSIVE FindItems(_, _)
FindItems(s, pos) ==
  LET m == NextItem(s, pos) IN
  IF ~m.found THEN <<>>
  ELSE <<LineItem(m.ref, m.captured)>> \o FindItems(s, m.end)

\* order['adresse'] after lines 117-165
ParseAddress(pdf_text) ==
  LET adresse_section == Section(pdf_text, ADR, REF) IN
  IF adresse_section.found THEN ResolveAddress(adresse_section.body)
  ELSE EmptyDict

ParseOrder(pdf_text) ==
  LET produits_section == Section(pdf_text, HDR, DEST)
  IN [adresse  |-> ParseAddress(pdf_text),
      produits |-> IF produits_section.found
                   THEN FindItems(produits_section.body, 1)
                   ELSE <<>>]

\* ------------------------------------------------------ cell values
\* A price or weight value: a number, float NaN (pandas' missing value), the
\* empty string '' or Python's None; a blank spreadsheet cell on disk.
Num(n)   == [t |-> "num", v |-> n]
NaN      == [t |-> "nan", v |-> 0]
EmptyStr == [t |-> "str", v |-> 0]
None     == [t |-> "none", v |-> 0]
Blank    == [t |-> "blank", v |-> 0]

\* bool(x): None, 0 and '' are false; a nonzero number and NaN are true
Truthy(x) == x.t = "nan" \/ (x.t = "num" /\ x.v # 0)
\* pd.notna(x)
NotNa(x) == x.t \notin {"nan", "none"}

\* missing text values: NaN in memory, an empty cell on disk
TextNaN   == "NaN"
TextBlank == ""
TextNone  == "None"
CodeNaN   == <<"NaN">>

\* ------------------------------------------- the spreadsheet (33, 48-51)
\* DataFrame.to_excel: NaN, None and '' are written as empty cells
ToCell(x) == IF x.t \in {"nan", "none", "str"} THEN Blank ELSE x
\* pd.read_excel: an empty cell is read as NaN
FromCell(c) == IF c.t = "blank" THEN NaN ELSE c

ToExcel(d) ==
  [k \in 1..Len(d) |->
     [ref_prozon |-> IF d[k].ref_prozon = CodeNaN THEN <<>> ELSE d[k].ref_prozon,
      nom        |-> IF d[k].nom = TextNaN THEN TextBlank ELSE d[k].nom,
      ref_ehs    |-> IF d[k].ref_ehs = TextNaN THEN TextBlank ELSE d[k].ref_ehs,
      prix       |-> ToCell(d[k].prix),
      poids      |-> ToCell(d[k].poids)]]

ReadExcel(rows) ==
  [k \in 1..Len(rows) |->
     [ref_prozon |-> IF rows[k].ref_prozon = <<>> THEN CodeNaN
                     ELSE rows[k].ref_prozon,
      nom        |-> IF rows[k].nom = TextBlank THEN TextNaN ELSE rows[k].nom,
      ref_ehs    |-> IF rows[k].ref_ehs = TextBlank THEN TextNaN
                     ELSE rows[k].ref_ehs,
      prix       |-> FromCell(rows[k].prix),
      poids      |-> FromCell(rows[k].poids)]]

\* save_excel (48-51): the file as rewritten from the table d
SaveExcel(d) == [exists |-> TRUE, rows |-> ToExcel(d)]

\* __init__ (29-46): the table loaded from file f, and the file afterwards
LoadTable(f) == IF f.exists THEN ReadExcel(f.rows) ELSE <<>>
\* a variant whose constructor does not save the table it creates
FileAfterInitNoSave(f) == f
FileAfterInit(f) == IF f.exists THEN f ELSE SaveExcel(<<>>)

\* -------------------------------------- add_or_update_reference (53-81)
\* self.df[self.df['References Prozon'] == ref_prozon], as row positions
Matching(d, ref_prozon) == {k \in 1..Len(d) : d[k].ref_prozon = ref_prozon}
FirstMatch(d, ref_prozon) ==
  CHOOSE k \in Matching(d, ref_prozon) :
    \A j \in Matching(d, ref_prozon) : k <= j

ActionUpdate == "mise a jour"
ActionInsert == "ajout"

\* a variant that never looks for an existing row
AlwaysAppend(d, ref_prozon, ref_ehs, nom_produit, poids, prix) ==
  [df |-> Append(d, [ref_prozon |-> ref_prozon,
                     nom |-> nom_produit,
                     ref_ehs |-> ref_ehs,
                     prix |-> IF Truthy(prix) THEN prix ELSE EmptyStr,
                     poids |-> poids]),
   action |-> ActionInsert]

\* the table after the call and the action returned
AddOrUpdateReference(d, ref_prozon, ref_ehs, nom_produit, poids, prix) ==
  IF Matching(d, ref_prozon) # {}
  THEN [df |-> [d EXCEPT ![FirstMatch(d, ref_prozon)] =
                  [@ EXCEPT !.ref_ehs = ref_ehs,
                            !.nom = nom_produit,
                            !.poids = poids,
                            !.prix = IF Truthy(prix) THEN prix ELSE @]],
        action |-> ActionUpdate]
  ELSE [df |-> Append(d, [ref_prozon |-> ref_prozon,
                          nom |-> nom_produit,
                          ref_ehs |-> ref_ehs,
                          prix |-> IF Truthy(prix) THEN prix ELSE EmptyStr,
                          poids |-> poids]),
        action |-> ActionInsert]

\* ------------------------------------------- convert_reference (202-218)
ConvertReference(d, ref_prozon) ==
  LET matches == SelectSeq(d, LAMBDA row : row.ref_prozon = ref_prozon)
  IN [k \in 1..Len(matches) |->
        [reference_ehs  |-> matches[k].ref_ehs,
         nom_produit    |-> matches[k].nom,
         poids_unitaire |-> IF NotNa(matches[k].poids) THEN matches[k].poids
                            ELSE None,
         prix           |-> IF NotNa(matches[k].prix) THEN matches[k].prix
                            ELSE None]]

\* ------------------------------------------------- process_pdf (220-252)
StatutOK       == "OK"
StatutPoids    == "POIDS_MANQUANT"
StatutNotFound == "NON_TROUVEE"

\* produit.copy() with the keys of one correspondance set (233-244)
EnrichedItem(produit, correspondance) ==
  [reference_ehs   |-> correspondance.reference_ehs,
   nom_produit_ehs |-> correspondance.nom_produit,
   poids_unitaire  |-> correspondance.poids_unitaire,
   prix_unitaire   |-> correspondance.prix,
   poids_total     |-> IF Truthy(correspondance.poids_unitaire)
                       THEN Num(correspondance.poids_unitaire.v
                                  * produit.quantite)
                       ELSE None,
   statut          |-> IF Truthy(correspondance.poids_unitaire)
                       THEN StatutOK ELSE StatutPoids]
  @@ produit

\* a variant that reports an unknown code as a missing weight
NotFoundAsMissingWeight(produit) ==
  [reference_ehs |-> TextNone, statut |-> StatutPoids] @@ produit

\* the raw item with the two keys the no-match branch sets (247-248)
NotFoundItem(produit) ==
  [reference_ehs |-> TextNone, statut |-> StatutNotFound] @@ produit

\* a variant that keeps only the first matching row
ExpandFirstOnly(d, produit) ==
  LET correspondances == ConvertReference(d, produit.reference_prozon) IN
  IF correspondances # <<>>
  THEN <<EnrichedItem(produit, correspondances[1])>>
  ELSE <<NotFoundItem(produit)>>

\* the items one raw item expands to (229-249)
ExpandItem(d, produit) ==
  LET correspondances == ConvertReference(d, produit.reference_prozon) IN
  IF correspondances # <<>>
  THEN [k \in 1..Len(correspondances) |->
          EnrichedItem(produit, correspondances[k])]
  ELSE <<NotFoundItem(produit)>>

\* the loop over order['produits'] (226-249)
RECURSIVE ExpandAll(_, _)
ExpandAll(d, produits) ==
  IF produits = <<>> THEN <<>>
  ELSE ExpandItem(d, Head(produits)) \o ExpandAll(d, Tail(produits))

\* the order with produits replaced by the expanded list (251)
Enrich(d, order) == [order EXCEPT !.produits = ExpandAll(d, order.produits)]

\* extract_text_from_pdf (83-90): the pages' texts concatenated
ExtractText(pdf) == Flatten(pdf.pages)

\* process_pdf on a readable document
ProcessPdf(d, pdf) == Enrich(d, ParseOrder(ExtractText(pdf)))

\* ------------------------------------------------ export_to_csv (254-279)
\* One CSV row per enriched item.  A key that is read with [] and missing
\* raises KeyError: [ok |-> FALSE, key |-> the missing key].
AdresseKeys == <<"nom_complet", "rue", "ville", "telephone">>

MissingKey(order, prod) ==
  LET miss == {k \in 1..Len(AdresseKeys) :
                 AdresseKeys[k] \notin DOMAIN order.adresse} IN
  IF miss # {}
  THEN AdresseKeys[CHOOSE k \in miss : \A j \in miss : k <= j]
  ELSE IF "statut" \notin DOMAIN prod THEN "statut" ELSE ""

CsvRow(order, prod) ==
  [Client            |-> order.adresse.nom_complet,
   Adresse_Livraison |-> order.adresse.rue,
   Ville             |-> order.adresse.ville,
   Telephone         |-> order.adresse.telephone,
   Ref_Prozon        |-> prod.reference_prozon,
   Ref_EHS           |-> IF "reference_ehs" \in DOMAIN prod
                         THEN prod.reference_ehs ELSE StatutNotFound,
   Quantite          |-> prod.quantite,
   Poids_Unitaire    |-> IF "poids_unitaire" \in DOMAIN prod
                         THEN prod.poids_unitaire ELSE EmptyStr,
   Poids_Total       |-> IF "poids_total" \in DOMAIN prod
                         THEN prod.poids_total ELSE EmptyStr,
   Statut            |-> prod.statut]

\* the (order, item) pairs in the order the two loops visit them (258-259)
RECURSIVE OrderItems(_)
OrderItems(os) ==
  IF os = <<>> THEN <<>>
  ELSE [k \in 1..Len(Head(os).produits) |->
          [order |-> Head(os), prod |-> Head(os).produits[k]]]
       \o OrderItems(Tail(os))

ExportToCsv(os) ==
  LET pairs == OrderItems(os)
      bad   == {k \in 1..Len(pairs) :
                  MissingKey(pairs[k].order, pairs[k].prod) # ""}
  IN IF bad # {}
     THEN LET k == CHOOSE k \in bad : \A j \in bad : k <= j
          IN [ok |-> FALSE, key |-> MissingKey(pairs[k].order, pairs[k].prod),
              rows |-> <<>>]
     ELSE [ok |-> TRUE, key |-> "",
           rows |-> [k \in 1..Len(pairs) |->
                       CsvRow(pairs[k].order, pairs[k].prod)]]

\* =====================================================================
\* The state
\* =====================================================================
VARIABLES
  processor,  \* the global processor exists (283-289)
  df,         \* processor.df: the catalog table in memory
  file,       \* the spreadsheet on disk: [exists, rows]
  uploads,    \* the PDFs of the upload folder, in glob order
  pc,         \* where the running handler is
  idx,        \* process_orders: the next document; parse_order: scan position
  orders,     \* process_orders: the orders collected so far
  resp,       \* the last response sent
  text,       \* parse_order: the text being parsed
  section,    \* parse_order: produits_section
  captured,   \* parse_order: description_full's source, match.group(2)
  order       \* parse_order / process_pdf: the order being built

vars == <<processor, df, file, uploads, pc, idx, orders, resp,
          text, section, captured, order>>

catalogVars == <<processor, df, file>>
parseVars   == <<text, section, captured, order>>

\* ------------------------------------------------------------ inputs
Code1 == <<"1", "0", "0", "0", "1", "-", "1">>
Code2 == <<"1", "0", "0", "0", "2", "-", "1">>
Code3 == <<"1", "0", "0", "0", "3", "-", "5">>
Codes == {Code1, Code2}
\* the products a request may name: internal reference and product name
Products == {[ref_ehs |-> "e1", nom_produit |-> "n1"],
             [ref_ehs |-> "e2", nom_produit |-> "n2"]}

Row(c, e, n, prix, poids) ==
  [ref_prozon |-> c, nom |-> n, ref_ehs |-> e, prix |-> prix, poids |-> poids]

\* rows a spreadsheet may hold before the first request
InitRows ==
  { Row(Code1, "e1", "n2", Num(5), Num(2)),
    Row(Code1, "e2", "n1", Blank, Blank) }

MaxInitRows == 2

RECURSIVE SeqsUpTo(_, _)
SeqsUpTo(S, n) ==
  IF n = 0 THEN {<<>>}
  ELSE LET shorter == SeqsUpTo(S, n - 1) IN
       shorter \cup {Append(q, x) : q \in {r \in shorter : Len(r) = n - 1},
                                    x \in S}

InitFiles ==
  {[exists |-> FALSE, rows |-> <<>>]}
    \cup {[exists |-> TRUE, rows |-> r] : r \in SeqsUpTo(InitRows, MaxInitRows)}

\* request.json of /api/references/add: weight and price as sent, text
Absent == [present |-> FALSE, s |-> <<>>]
Sent(s) == [present |-> TRUE, s |-> s]
RawWeights == {<<"2">>, <<"0">>, <<"a">>}
RawPrices  == {Absent, Sent(<<>>), Sent(<<"5">>), Sent(<<"0">>), Sent(<<"a">>)}

AddRequests ==
  {[ref_prozon |-> c, ref_ehs |-> p.ref_ehs, nom_produit |-> p.nom_produit,
    poids |-> w, prix |-> x] :
     c \in Codes, p \in Products, w \in RawWeights, x \in RawPrices}

\* a variant that reads text it cannot convert as 0
FloatOrZero(s) ==
  [ok |-> TRUE,
   v  |-> IF s # <<>> /\ \A k \in 1..Len(s) : IsDigit(s[k])
          THEN IntOf(s) ELSE 0]

\* float(s) on text of digits and letters: [ok, v]; not ok is ValueError
Float(s) ==
  [ok |-> s # <<>> /\ \A k \in 1..Len(s) : IsDigit(s[k]),
   v  |-> IF s # <<>> /\ \A k \in 1..Len(s) : IsDigit(s[k])
          THEN IntOf(s) ELSE 0]

\* the documents
Phone == <<"0", "1", "2", "3", "5", "0", "1", "2", "3", "5">>
TextA ==
  <<ADR, NL, "a", SP, "b", NL, "c", NL, "d", NL, "e", NL>> \o Phone
    \o <<NL, FR, NL, REF, NL, HDR, NL>>
    \o Code1 \o <<SP, "w", SP, SP, "w", SP, "3", NL>>
    \o Code2 \o <<SP, "w", SP, "2", NL, DEST, SP, "5">>
TextB1 == <<HDR, NL>> \o Code3 \o <<SP, "w", NL>>
TextB2 == Code1 \o <<SP, "w", SP, "2", NL>>

PdfBad == [readable |-> FALSE, pages |-> <<>>]
PdfA   == [readable |-> TRUE, pages |-> <<TextA>>]
PdfB   == [readable |-> TRUE, pages |-> <<TextB1, TextB2>>]
PdfC   == [readable |-> TRUE, pages |-> <<<<"w", NL>>>>]
Pdfs   == {PdfBad, PdfA, PdfB, PdfC}

EmptyOrder == [adresse |-> EmptyDict, produits |-> <<>>]
NoResp == [route |-> "none", status |-> 0]

\* =====================================================================
\* The web service: Spec
\* =====================================================================
SpecFolder == <<PdfBad, PdfB>>

Init ==
  /\ processor = FALSE
  /\ df = <<>>
  /\ file \in InitFiles
  /\ uploads = SpecFolder
  /\ pc = "idle"
  /\ idx = 0
  /\ orders = <<>>
  /\ resp = NoResp
  /\ text = <<>>
  /\ section = [found |-> FALSE, body |-> <<>>]
  /\ captured = <<>>
  /\ order = EmptyOrder

\* get_processor (285-289): the table and the file once the processor exists
ProcDf   == IF processor THEN df ELSE LoadTable(file)
ProcFile == IF processor THEN file ELSE FileAfterInit(file)

\* the prix argument (325): None when absent or falsy, else float(...)
PrixArg(raw) ==
  IF raw.present /\ raw.s # <<>>
  THEN [ok |-> Float(raw.s).ok, v |-> Num(Float(raw.s).v)]
  ELSE [ok |-> TRUE, v |-> None]

\* POST /api/references/add (313-337): the table, the file and the response
\* the handler leaves for request data
AddReferenceResult(data) ==
  IF Float(data.poids).ok /\ PrixArg(data.prix).ok
  THEN LET r == AddOrUpdateReference(ProcDf, data.ref_prozon, data.ref_ehs,
                                     data.nom_produit,
                                     Num(Float(data.poids).v),
                                     PrixArg(data.prix).v)
       IN [df   |-> r.df,
           file |-> SaveExcel(r.df),
           resp |-> [route |-> "add", status |-> 200, success |-> TRUE,
                     action |-> r.action, ref_prozon |-> data.ref_prozon]]
  ELSE [df   |-> ProcDf,
        file |-> ProcFile,
        resp |-> [route |-> "add", status |-> 400, success |-> FALSE,
                  error |-> IF Float(data.poids).ok THEN data.prix.s
                            ELSE data.poids]]

AddReference(data) ==
  /\ pc = "idle"
  /\ processor' = TRUE
  /\ df' = AddReferenceResult(data).df
  /\ file' = AddReferenceResult(data).file
  /\ resp' = AddReferenceResult(data).resp
  /\ UNCHANGED <<uploads, pc, idx, orders, parseVars>>

\* GET /api/references (306-310)
GetReferences ==
  /\ pc = "idle"
  /\ processor' = TRUE
  /\ df' = ProcDf
  /\ file' = ProcFile
  /\ resp' = [route |-> "references", status |-> 200, count |-> Len(ProcDf)]
  /\ UNCHANGED <<uploads, pc, idx, orders, parseVars>>

\* POST /api/process up to the loop (364-374)
ProcessOrdersStart ==
  /\ pc = "idle"
  /\ processor' = TRUE
  /\ df' = ProcDf
  /\ file' = ProcFile
  /\ orders' = <<>>
  /\ idx' = 1
  /\ IF uploads = <<>>
     THEN /\ resp' = [route |-> "process", status |-> 400]
          /\ pc' = "idle"
     ELSE /\ resp' = resp
          /\ pc' = "loop"
  /\ UNCHANGED <<uploads, parseVars>>

\* a variant in which a failure loses the results collected before it
ProcessOneAbort(d, os, pdf) ==
  IF pdf.readable THEN Append(os, ProcessPdf(d, pdf)) ELSE <<>>

\* one turn of the loop (375-380): a failure is printed and skipped
ProcessOne(d, os, pdf) ==
  IF pdf.readable THEN Append(os, ProcessPdf(d, pdf)) ELSE os

ProcessPdfStep ==
  /\ pc = "loop"
  /\ idx <= Len(uploads)
  /\ orders' = ProcessOne(df, orders, uploads[idx])
  /\ idx' = idx + 1
  /\ UNCHANGED <<catalogVars, uploads, pc, resp, parseVars>>

\* the response after the loop (382-386)
ProcessOrdersReturn ==
  /\ pc = "loop"
  /\ idx > Len(uploads)
  /\ resp' = [route |-> "process", status |-> 200, success |-> TRUE,
              orders |-> orders, count |-> Len(orders)]
  /\ pc' = "idle"
  /\ UNCHANGED <<catalogVars, uploads, idx, orders, parseVars>>

\* the response of POST /api/export for the orders sent (389-412)
ExportResponse(os) ==
  IF os = <<>>
  THEN [route |-> "export", status |-> 400, success |-> FALSE,
        error |-> "Aucune commande"]
  ELSE IF ExportToCsv(os).ok
  THEN [route |-> "export", status |-> 200, success |-> TRUE,
        rows |-> ExportToCsv(os).rows]
  ELSE [route |-> "export", status |-> 400, success |-> FALSE,
        error |-> ExportToCsv(os).key]

\* POST /api/export with the orders of the last process response
ExportCsv ==
  /\ pc = "idle"
  /\ resp.route = "process" /\ resp.status = 200
  /\ processor' = TRUE
  /\ df' = ProcDf
  /\ file' = ProcFile
  /\ resp' = ExportResponse(resp.orders)
  /\ UNCHANGED <<uploads, pc, idx, orders, parseVars>>

Next ==
  \/ \E data \in AddRequests : AddReference(data)
  \/ GetReferences
  \/ ProcessOrdersStart
  \/ ProcessPdfStep
  \/ ProcessOrdersReturn
  \/ ExportCsv

Spec == Init /\ [][Next]_vars

\* =====================================================================
\* The batch route alone, over every small upload folder: BatchSpec
\* =====================================================================
MaxDocs == 2
MaxCatalogRows == 2

BatchRows == InitRows \cup {Row(Code2, "e2", "n2", Blank, Num(0))}

BatchInit ==
  /\ processor = TRUE
  /\ \E rows \in SeqsUpTo(BatchRows, MaxCatalogRows) :
       /\ file = [exists |-> TRUE, rows |-> rows]
       /\ df = ReadExcel(rows)
  /\ uploads \in SeqsUpTo(Pdfs, MaxDocs)
  /\ pc = "idle"
  /\ idx = 0
  /\ orders = <<>>
  /\ resp = NoResp
  /\ text = <<>>
  /\ section = [found |-> FALSE, body |-> <<>>]
  /\ captured = <<>>
  /\ order = EmptyOrder

BatchNext ==
  \/ ProcessOrdersStart
  \/ ProcessPdfStep
  \/ ProcessOrdersReturn

BatchSpec == BatchInit /\ [][BatchNext]_vars

\* =====================================================================
\* parse_order step by step, then enrichment and export: ParseSpec
\* =====================================================================
MaxItems == 2

AddrBlocks ==
  { <<>>,
    <<ADR>>,
    <<ADR, NL, "a", NL, REF, NL>>,
    <<ADR, SP, "a", NL, "b", SP, "b", NL, "c", NL>> \o Phone
      \o <<NL, FR, NL, REF, NL>>,
    <<ADR, NL, "a", NL, "b", NL>> }

Descs ==
  { <<"w", SP, "3">>,
    <<"w">>,
    <<"w", SP, "0">>,
    <<"w", SP, SP, "w", NL, "1", "2">>,
    <<"3", SP, NL>>,
    <<>> }

ItemTexts == {Code1 \o <<SP>> \o d \o <<NL>> : d \in Descs}

ProdBlocks ==
  {<<>>} \cup {<<HDR, NL>> \o Flatten(items) \o <<DEST, SP, "1">> :
                 items \in SeqsUpTo(ItemTexts, MaxItems)}

Texts == {a \o p : a \in AddrBlocks, p \in ProdBlocks}

ParseCatalogs == {<<>>, ReadExcel(<<Row(Code1, "e1", "n1", Blank, Num(2))>>)}

ParseInit ==
  /\ processor = TRUE
  /\ df \in ParseCatalogs
  /\ file = SaveExcel(df)
  /\ uploads = <<>>
  /\ pc = "text"
  /\ idx = 0
  /\ orders = <<>>
  /\ resp = NoResp
  /\ text \in Texts
  /\ section = [found |-> FALSE, body |-> <<>>]
  /\ captured = <<>>
  /\ order = EmptyOrder

\* lines 94-175: the address, and the line-item span
ParseOrderStart ==
  /\ pc = "text"
  /\ order' = [adresse |-> ParseAddress(text), produits |-> <<>>]
  /\ section' = Section(text, HDR, DEST)
  /\ idx' = 1
  /\ pc' = IF Section(text, HDR, DEST).found THEN "items" ELSE "parsed"
  /\ UNCHANGED <<catalogVars, uploads, orders, resp, text, captured>>

\* one turn of the loop over the matches (179-198)
ParseOrderItem ==
  /\ pc = "items"
  /\ NextItem(section.body, idx).found
  /\ LET m == NextItem(section.body, idx) IN
       /\ captured' = m.captured
       /\ order' = [order EXCEPT
                      !.produits = Append(@, LineItem(m.ref, m.captured))]
       /\ idx' = m.end
  /\ UNCHANGED <<catalogVars, uploads, orders, resp, text, section, pc>>

\* return order (200)
ParseOrderReturn ==
  /\ pc = "items"
  /\ ~NextItem(section.body, idx).found
  /\ pc' = "parsed"
  /\ UNCHANGED <<catalogVars, uploads, idx, orders, resp, parseVars>>

\* process_pdf's enrichment of the parsed order (225-252)
EnrichOrder ==
  /\ pc = "parsed"
  /\ order' = Enrich(df, order)
  /\ pc' = "enriched"
  /\ UNCHANGED <<catalogVars, uploads, idx, orders, resp, text, section,
                 captured>>

\* the export of that one order
ExportOrder ==
  /\ pc = "enriched"
  /\ resp' = ExportResponse(<<order>>)
  /\ pc' = "exported"
  /\ UNCHANGED <<catalogVars, uploads, idx, orders, parseVars>>

ParseNext ==
  \/ ParseOrderStart
  \/ ParseOrderItem
  \/ ParseOrderReturn
  \/ EnrichOrder
  \/ ExportOrder

ParseSpec == ParseInit /\ [][ParseNext]_vars

\* the steps of ParseSpec compute what ParseOrder computes
ParseStepsAgree == pc = "parsed" => order = ParseOrder(text)

\* =====================================================================
\* Claims about the catalog (Spec)
\* =====================================================================
UpsertCodes   == Codes
UpsertWeights == {Num(0), Num(2)}
UpsertPrices  == {None, Num(0), Num(5)}

\* C1: upserting the same (code, ehs ref, name, weight, price) a second time
\* leaves the rows of the first call; a code that was absent has exactly one
\* row afterwards; with a price and without.
C1_UpsertIdempotent ==
  processor =>
    \A c \in UpsertCodes, p \in Products,
       w \in UpsertWeights, x \in UpsertPrices :
      LET r1 == AddOrUpdateReference(df, c, p.ref_ehs, p.nom_produit, w, x)
          r2 == AddOrUpdateReference(r1.df, c, p.ref_ehs, p.nom_produit, w, x)
      IN /\ r2.df = r1.df
         /\ Matching(df, c) = {} => Cardinality(Matching(r2.df, c)) = 1

\* an insert has just been answered and the code has exactly one row
C1_Witness ==
  /\ resp.route = "add" /\ resp.status = 200
  /\ resp.action = ActionInsert
  /\ Len(df) >= 2
  /\ Cardinality(Matching(df, resp.ref_prozon)) = 1

\* what C2 says of one call: before, after, the arguments, the action returned
UpsertFrame(before, after, action, c, e, n, w, x) ==
  IF Matching(before, c) # {}
  THEN LET i == FirstMatch(before, c) IN
       /\ action = ActionUpdate
       /\ Len(after) = Len(before)
       /\ after[i].ref_prozon = c
       /\ after[i].ref_ehs = e
       /\ after[i].nom = n
       /\ after[i].poids = w
       /\ (x # None => after[i].prix = x)
       /\ \A k \in 1..Len(before) : k # i => after[k] = before[k]
  ELSE /\ action = ActionInsert
       /\ Len(after) = Len(before) + 1
       /\ \A k \in 1..Len(before) : after[k] = before[k]
       /\ after[Len(after)].ref_prozon = c
       /\ after[Len(after)].ref_ehs = e
       /\ after[Len(after)].nom = n
       /\ after[Len(after)].poids = w
       /\ (x # None => after[Len(after)].prix = x)

\* C2: an upsert of an existing code updates the first matching row (price
\* whenever one is provided) and nothing else; an upsert of a new code appends
\* one row holding the given values.
C2_UpsertFrame ==
  [][\A data \in AddRequests :
       (AddReference(data) /\ Float(data.poids).ok /\ PrixArg(data.prix).ok)
         => UpsertFrame(ProcDf, df', resp'.action, data.ref_prozon,
                        data.ref_ehs, data.nom_produit,
                        Num(Float(data.poids).v), PrixArg(data.prix).v)]_vars

\* text that is not a number; an empty or absent price counts as no price
NonNumeric(s) == s = <<>> \/ \E k \in 1..Len(s) : ~IsDigit(s[k])
Malformed(data) ==
  \/ NonNumeric(data.poids)
  \/ (data.prix.present /\ data.prix.s # <<>> /\ NonNumeric(data.prix.s))

\* C7: a request with a malformed weight or price is answered with an error
\* and changes neither the table in memory nor the table on disk.
C7_MalformedRejected ==
  pc = "idle" =>
    \A data \in AddRequests :
      Malformed(data) =>
        LET after == AddReferenceResult(data) IN
        /\ after.resp.status = 400 /\ ~after.resp.success
        /\ after.df = ProcDf
        /\ LoadTable(after.file) = LoadTable(file)
        /\ (processor => after.df = df /\ after.file = file)

\* a request was rejected while the catalog held rows
C7_Witness ==
  /\ resp.route = "add" /\ resp.status = 400
  /\ Len(df) >= 2
  /\ file = SaveExcel(df)

\* C8: once the processor exists the file on disk is the table in memory as
\* to_excel writes it, after construction and after every upsert; the
\* enrichment of the documents, and every route of an existing processor
\* other than the upsert, change neither.
C8_PersistedAfterMutation ==
  /\ [](processor => file = SaveExcel(df))
  /\ [][(pc = "loop" \/ (processor /\ resp'.route # "add"))
          => (df' = df /\ file' = file)]_vars

\* an update was answered on a table that holds a row without a price
C8_Witness ==
  /\ resp.route = "add" /\ resp.status = 200
  /\ resp.action = ActionUpdate
  /\ Len(df) >= 2
  /\ \E k \in 1..Len(df) : df[k].prix = EmptyStr
  /\ file.rows = ToExcel(df)

\* =====================================================================
\* Claims about enrichment and the batch route (BatchSpec)
\* =====================================================================
\* the readable documents among the first n uploads, in order
Readable(n) == SelectSeq(SubSeq(uploads, 1, n), LAMBDA pdf : pdf.readable)
Handled == IF idx > 0 THEN idx - 1 ELSE 0

\* the raw line items of a document
RawItems(pdf) == ParseOrder(ExtractText(pdf)).produits

NumMatches(d, ref) == Cardinality(Matching(d, ref))
Width(d, item) ==
  IF NumMatches(d, item.reference_prozon) = 0 THEN 1
  ELSE NumMatches(d, item.reference_prozon)

\* the number of enriched items the raw items before the i-th account for
RECURSIVE Offset(_, _, _)
Offset(d, raw, i) ==
  IF i <= 1 THEN 0 ELSE Offset(d, raw, i - 1) + Width(d, raw[i - 1])

\* the position in the table of the k-th row with code ref
KthMatch(d, ref, k) ==
  CHOOSE r \in Matching(d, ref) :
    Cardinality({j \in Matching(d, ref) : j < r}) = k - 1

\* P(raw, out) for every order collected so far and its document
ForEachOrder(P(_, _)) ==
  /\ Len(orders) = Len(Readable(Handled))
  /\ \A k \in 1..Len(orders) :
       P(RawItems(Readable(Handled)[k]), orders[k].produits)

SameRawFields(o, item) ==
  /\ o.reference_prozon = item.reference_prozon
  /\ o.description = item.description
  /\ o.quantite = item.quantite

\* C3 for one order: every matched row yields poids_total = weight x
\* quantity and OK when the row has a weight (zero included), and null and
\* POIDS_MANQUANT exactly when it has none
WeightRule(raw, out) ==
  /\ Len(out) = Offset(df, raw, Len(raw) + 1)
  /\ \A i \in 1..Len(raw) :
       \A k \in 1..NumMatches(df, raw[i].reference_prozon) :
         LET o   == out[Offset(df, raw, i) + k]
             row == df[KthMatch(df, raw[i].reference_prozon, k)]
         IN IF NotNa(row.poids)
            THEN /\ o.poids_total = Num(row.poids.v * raw[i].quantite)
                 /\ o.statut = StatutOK
            ELSE /\ o.poids_total = None
                 /\ o.statut = StatutPoids

\* C3: poids_total and statut follow the presence of the row's weight.
C3_WeightAndStatus == ForEachOrder(WeightRule)

\* field f of item o holds no value: the key is not set, or set to None
NoValue(o, f) ==
  \/ f \notin DOMAIN o
  \/ (IF f \in {"reference_ehs", "nom_produit_ehs"} THEN o[f] = TextNone
      ELSE o[f] = None)

NotFoundRule(raw, out) ==
  /\ Len(out) = Offset(df, raw, Len(raw) + 1)
  /\ \A i \in 1..Len(raw) :
       NumMatches(df, raw[i].reference_prozon) = 0 =>
         LET o == out[Offset(df, raw, i) + 1] IN
         /\ Offset(df, raw, i + 1) = Offset(df, raw, i) + 1
         /\ o.statut = StatutNotFound
         /\ \A f \in {"reference_ehs", "nom_produit_ehs", "poids_unitaire",
                      "prix_unitaire", "poids_total"} : NoValue(o, f)
         /\ SameRawFields(o, raw[i])

\* C4: a raw item whose code has no row yields exactly one item, NON_TROUVEE,
\* without any EHS, weight or price value, its raw fields unchanged.
C4_NotFound == ForEachOrder(NotFoundRule)

\* an order with a NON_TROUVEE item was produced from a catalog with rows
C4_Witness ==
  /\ df # <<>>
  /\ \E k \in 1..Len(orders) : \E j \in 1..Len(orders[k].produits) :
       /\ orders[k].produits[j].statut = StatutNotFound
       /\ orders[k].produits[j].reference_prozon = Code3
       /\ Len(orders[k].produits) >= 2

FanOutRule(raw, out) ==
  /\ Len(out) = Offset(df, raw, Len(raw) + 1)
  /\ \A i \in 1..Len(raw) :
       \A k \in 1..Width(df, raw[i]) :
         LET o == out[Offset(df, raw, i) + k] IN
         /\ SameRawFields(o, raw[i])
         /\ NumMatches(df, raw[i].reference_prozon) > 0 =>
              LET row == df[KthMatch(df, raw[i].reference_prozon, k)] IN
              /\ o.reference_ehs = row.ref_ehs
              /\ o.nom_produit_ehs = row.nom

\* C5: the enriched items are the raw items' blocks in line-item order, one
\* item per matching row in table order, one item for a code without a row.
C5_FanOutOrder == ForEachOrder(FanOutRule)

\* one raw item fanned out into two rows' items, followed by the next item
C5_Witness ==
  \E k \in 1..Len(orders) :
    LET out == orders[k].produits IN
    /\ Len(out) >= 3
    /\ out[1].reference_prozon = Code1 /\ out[2].reference_prozon = Code1
    /\ out[1].reference_ehs = "e2" /\ out[2].reference_ehs = "e1"
    /\ out[3].reference_prozon = Code2

\* the orders process_orders owes for the first n uploads
Expected(n) == [k \in 1..Len(Readable(n)) |-> ProcessPdf(df, Readable(n)[k])]

\* C6: a document that fails is skipped and the loop goes on: every turn,
\* failed or not, moves to the next document, so the loop ends after
\* Len(uploads) turns; it is left only past the last document, with the
\* response holding the results of the documents that did not fail, in
\* order, and their number.
C6_BatchIsolation ==
  /\ [](pc = "loop" =>
          /\ idx \in 1..(Len(uploads) + 1)
          /\ orders = Expected(idx - 1))
  /\ [][pc = "loop" =>
          \/ (pc' = "loop" /\ idx <= Len(uploads) /\ idx' = idx + 1)
          \/ /\ pc' = "idle" /\ idx = Len(uploads) + 1
             /\ resp'.route = "process" /\ resp'.status = 200
             /\ resp'.orders = Expected(Len(uploads))
             /\ resp'.count = Len(Readable(Len(uploads)))]_vars

\* the response to a folder whose first document failed
C6_Witness ==
  /\ pc = "idle" /\ resp.route = "process" /\ resp.status = 200
  /\ uploads = <<PdfBad, PdfA>>
  /\ resp.count = 1
  /\ resp.orders[1].produits # <<>>

\* =====================================================================
\* Claims about parsing (ParseSpec)
\* =====================================================================
NoAddressMarker == \A i \in 1..Len(text) : text[i] # ADR

\* the address fields every consumer reads, with their empty values
EmptyField(adresse, k) == k \in DOMAIN adresse /\ adresse[k] = <<>>

\* C9: for a document without the "Adresse de livraison" marker the parsed
\* order's address has nom_complet, rue, ville and telephone present and
\* empty and pays the default country, and the exporter, which reads those
\* fields, does not fail on that order.
C9_AddressDefaults ==
  NoAddressMarker =>
    /\ pc \in {"items", "parsed", "enriched", "exported"} =>
         /\ \A k \in 1..Len(AdresseKeys) :
              EmptyField(order.adresse, AdresseKeys[k])
         /\ "pays" \in DOMAIN order.adresse
         /\ order.adresse.pays = <<"France">>
    /\ (pc = "exported" /\ order.produits # <<>>) => resp.success

\* the text with its leading and trailing whitespace removed and every
\* inner run of whitespace replaced by one space
Collapsed(s) ==
  LET t    == Strip(s)
      keep == SelectSeq([i \in 1..Len(t) |-> i],
                        LAMBDA i : ~IsSpace(t[i]) \/ ~IsSpace(t[i + 1]))
  IN [k \in 1..Len(keep) |->
        IF IsSpace(t[keep[k]]) THEN SP ELSE t[keep[k]]]

\* the length of the run of digits the text ends in
TrailingDigits(s) ==
  CHOOSE k \in 0..Len(s) :
    /\ \A j \in (Len(s) - k + 1)..Len(s) : IsDigit(s[j])
    /\ (k < Len(s) => ~IsDigit(s[Len(s) - k]))

\* the rule of the claim for one item and the text captured for it
QuantityRule(item, capt) ==
  LET c == Strip(capt)
      k == TrailingDigits(c)
  IN IF k > 0
     THEN /\ item.quantite = IntOf(Slice(c, Len(c) - k + 1, Len(c)))
          /\ item.description = Collapsed(Slice(c, 1, Len(c) - k))
     ELSE /\ item.quantite = 1
          /\ item.description = Collapsed(c)

\* the item the loop has just appended, whose text is in captured
ItemParsed == pc = "items" /\ order.produits # <<>>
LastItem   == order.produits[Len(order.produits)]

\* C10 as stated: every parsed line item has a positive integer quantity,
\* the value of the trailing digit run of its captured text with the
\* whitespace-collapsed text before it as description, or 1 and the whole
\* collapsed text when there is no such run.
C10_QuantityPositive ==
  ItemParsed =>
    /\ LastItem.quantite \in Nat /\ LastItem.quantite > 0
    /\ QuantityRule(LastItem, captured)

\* C10 amended: every parsed line item has a non-negative integer quantity,
\* the value of the trailing digit run of its captured text (zero for a run
\* of zeros) with the whitespace-collapsed text before it as description,
\* or 1 and the whole collapsed text when there is no such run.
C10_QuantityRule ==
  ItemParsed =>
    /\ LastItem.quantite \in Nat
    /\ QuantityRule(LastItem, captured)

C10_Witness ==
  /\ ItemParsed
  /\ TrailingDigits(Strip(captured)) > 0
  /\ LastItem.quantite = 0
  /\ LastItem.description = <<"w">>

====
